---------------------------- MODULE Spec2Model ----------------------------
(***************************************************************************)
(* A model of sync_strava.py: the merge of the bulk export with the API    *)
(* activities, the plan-week index, the aerobic-efficiency analysis, the   *)
(* marathon prediction and the status classification.                      *)
(*                                                                         *)
(* Encodings.                                                              *)
(*   - a date string "YYYY-MM-DD" is the tuple <<y, m, d>>: comparing the  *)
(*     strings is comparing the tuples lexicographically;                  *)
(*   - distance_km (a float with 2 decimals) is an integer number of       *)
(*     hundredths of a km; a heart rate is an integer number of tenths of  *)
(*     a beat per minute;                                                  *)
(*   - Python's None and the empty string "" are the empty tuple <<>>, a   *)
(*     present value v is <<v>>.                                           *)
(***************************************************************************)
EXTENDS Integers, Sequences, FiniteSets, TLC

VARIABLES
    export_rows,   \* merge's first argument: the parsed export rows
    api_raw,       \* the activities the API returned (before norm_api)
    api_rows,      \* merge's second argument: [norm_api(a) for a in ...]
    master,        \* merge's local dict, in insertion order
    pc,            \* the position in main / merge
    idx,           \* the index of the row the current loop is at
    rows,          \* what merge returned (main's `master`)
    analysis,      \* what analyse returned
    pred_secs,     \* what predict returned
    status,        \* the "status" field build_status returned
    date_in,       \* plan_week's argument
    week_out       \* plan_week's result

vars == <<export_rows, api_raw, api_rows, master, pc, idx, rows, analysis,
          pred_secs, status, date_in, week_out>>

-----------------------------------------------------------------------------
(* Optional values and Python truthiness.                                  *)

None == <<>>

Some(v) == <<v>>

\* `if x:` for x a number, None or "": false for None, "" and zero.
Truthy(x) == x # None /\ x[1] # 0

-----------------------------------------------------------------------------
(* Bounds of the model.                                                    *)

\* The most rows the export and the API hold together.
MaxRows == 3

\* The most export rows of a run of the whole pipeline.
MaxPipelineRows == 3

\* The trend percentages predict is tried on: -MaxPctTenths .. MaxPctTenths
\* tenths of a percent.
MaxPctTenths == 80

\* The predicted times build_status is tried on: within MaxDelta seconds of
\* the target.
MaxDelta == 400

-----------------------------------------------------------------------------
(* Program constants.                                                      *)

PLAN_START == <<2025, 12, 22>>

TARGET_SECS == 9300

TARGET_DIST_M == 42195

HM_PB_SECS == 4380

-----------------------------------------------------------------------------
(* Rounding.  round(x, n) rounds the double nearest to x; a decimal tie    *)
(* (a last digit 5) is therefore decided by the side on which that double *)
(* lies, which follows no simple rule.  The ties the model's values can    *)
(* meet are tabulated from the interpreter.                                *)

\* Hundredths of a km c, 995 <= c <= 1055, ending in 5, for which
\* round(c / 100, 1) rounds up (10.05 -> 10.1, but 10.25 -> 10.2).
Round1TiesUp == {1005, 1015, 1055}

\* Metres m, 10005 <= m <= 10055, ending in 5, for which round(m / 1000, 2)
\* rounds up (10.005 -> 10.01, but 10.045 -> 10.04).
Round2TiesUp == {10005, 10015, 10025}

RoundLastDigit(n, tiesUp) ==
    LET q == n \div 10
        r == n % 10
    IN  IF r < 5 THEN q
        ELSE IF r > 5 THEN q + 1
        ELSE IF n \in tiesUp THEN q + 1 ELSE q

\* round(distance_km, 1): hundredths of a km to tenths of a km.
Round1(c) == RoundLastDigit(c, Round1TiesUp)

-----------------------------------------------------------------------------
(* norm_api                                                                *)

\* round(a.get("distance", 0) / 1000, 2): metres to hundredths of a km.
NormDistance(m) == RoundLastDigit(m, Round2TiesUp)

norm_api(a) ==
    [activity_id |-> a.id,
     date        |-> SubSeq(a.start_date_local, 1, 3),
     name        |-> a.name,
     distance_km |-> NormDistance(a.distance),
     moving_secs |-> a.moving_time,
     avg_hr      |-> IF Truthy(a.average_heartrate)
                     THEN a.average_heartrate ELSE None]

-----------------------------------------------------------------------------
(* plan_week                                                               *)

IsLeap(y) == y % 4 = 0 /\ (y % 100 # 0 \/ y % 400 = 0)

DaysInMonth(y, m) ==
    IF m = 2 THEN (IF IsLeap(y) THEN 29 ELSE 28)
    ELSE IF m \in {4, 6, 9, 11} THEN 30 ELSE 31

RECURSIVE DaysBeforeMonth(_, _)
DaysBeforeMonth(y, m) ==
    IF m = 1 THEN 0 ELSE DaysBeforeMonth(y, m - 1) + DaysInMonth(y, m - 1)

\* date.toordinal(): the days from 0001-01-01, which is day 1.
ToOrdinal(d) ==
    LET y == d[1] - 1
    IN  y * 365 + y \div 4 - y \div 100 + y \div 400
        + DaysBeforeMonth(d[1], d[2]) + d[3]

PlanWeekLast17(d) ==
    LET days == ToOrdinal(d) - ToOrdinal(PLAN_START)
        w    == days \div 7 + 1
    IN  IF days < 0 THEN None
        ELSE IF 1 <= w /\ w < 18 THEN Some(w) ELSE None

PlanWeekFromZero(d) ==
    LET days == ToOrdinal(d) - ToOrdinal(PLAN_START)
        w    == days \div 7
    IN  IF days < 0 THEN None
        ELSE IF 1 <= w /\ w <= 18 THEN Some(w) ELSE None

plan_week(d) ==
    LET days == ToOrdinal(d) - ToOrdinal(PLAN_START)
        w    == days \div 7 + 1
    IN  IF days < 0 THEN None
        ELSE IF 1 <= w /\ w <= 18 THEN Some(w) ELSE None

-----------------------------------------------------------------------------
(* merge                                                                   *)

NoCopyRow(src, k, r) == [key |-> r.activity_id, row |-> r, alias |-> <<src, k>>]

\* The dict entry master[r["activity_id"]] = r.copy(), for r the row k of the
\* caller's list src.  The stored row is a dict of its own: `alias` names
\* the caller's dict that a stored row shares, and a copy shares none.
StoredRow(src, k, r) == [key |-> r.activity_id, row |-> r, alias |-> None]

HasKey(m, k) == \E j \in 1..Len(m) : m[j].key = k

KeyIndex(m, k) == CHOOSE j \in 1..Len(m) : m[j].key = k

DictSetAppend(m, e) == Append(m, e)

\* master[k] = v: an existing key keeps its place in the dict's order.
DictSet(m, e) ==
    IF HasKey(m, e.key)
    THEN [m EXCEPT ![KeyIndex(m, e.key)] = e]
    ELSE Append(m, e)

FuzzyKeyDateOnly(r) == <<r.date>>

\* (r["date"], round(r["distance_km"], 1))
FuzzyKey(r) == <<r.date, Round1(r.distance_km)>>

HasFuzzy(m, r) == \E j \in 1..Len(m) : FuzzyKey(m[j].row) = FuzzyKey(r)

\* next(v for v in master.values() if ... == dup_key): the first in the
\* dict's order.
FirstFuzzy(m, r) ==
    CHOOSE j \in 1..Len(m) :
        /\ FuzzyKey(m[j].row) = FuzzyKey(r)
        /\ \A k \in 1..(j - 1) : FuzzyKey(m[k].row) # FuzzyKey(r)

OverwriteIfStoredEmpty(stored, r) ==
    IF Truthy(r.avg_hr) /\ ~Truthy(stored.avg_hr)
    THEN [stored EXCEPT !.avg_hr = r.avg_hr] ELSE stored

\* if r["avg_hr"]: stored["avg_hr"] = r["avg_hr"]
UpdateHr(stored, r) ==
    IF Truthy(r.avg_hr) THEN [stored EXCEPT !.avg_hr = r.avg_hr] ELSE stored

\* The caller's list `lst` after the stored row at j was assigned: unchanged
\* unless the stored row is the caller's own dict.
WriteThrough(lst, src, m, j) ==
    IF m[j].alias # None /\ m[j].alias[1] = src
    THEN [lst EXCEPT ![m[j].alias[2]] = m[j].row]
    ELSE lst

DateLess(a, b) ==
    \/ a[1] < b[1]
    \/ a[1] = b[1] /\ a[2] < b[2]
    \/ a[1] = b[1] /\ a[2] = b[2] /\ a[3] < b[3]

\* The stable insertion of x into s, sorted by date: x goes after every
\* element whose date is not later than its own.
InsertByDate(s, x) ==
    LET after == {j \in 1..Len(s) : DateLess(x.date, s[j].date)}
        p     == IF after = {} THEN Len(s) + 1
                 ELSE CHOOSE j \in after : \A k \in after : j <= k
    IN  SubSeq(s, 1, p - 1) \o <<x>> \o SubSeq(s, p, Len(s))

RECURSIVE SortedByDate(_)
\* sorted(master.values(), key=lambda x: x["date"]), a stable sort.
SortedByDate(s) ==
    IF s = <<>> THEN <<>>
    ELSE InsertByDate(SortedByDate(SubSeq(s, 1, Len(s) - 1)), s[Len(s)])

Values(m) == [j \in 1..Len(m) |-> m[j].row]

\* Where merge goes after row k of its first loop (phase = "seed") or of its
\* second loop (phase = "api"), for ne export rows and na API rows: an
\* exhausted loop falls through to the next.
AfterRow(phase, k, ne, na) ==
    IF phase = "seed" /\ k < ne THEN <<"seed", k + 1>>
    ELSE IF phase = "seed" /\ na > 0 THEN <<"api", 1>>
    ELSE IF phase = "api" /\ k < na THEN <<"api", k + 1>>
    ELSE <<"return", 0>>

\* analysis, before analyse has run.
NoAnalysis == [ran |-> FALSE]

\* main: api_rows = [norm_api(a) for a in fetch_api_runs(token, after)],
\* then the call of merge.
NormApi ==
    /\ pc = "norm"
    /\ api_rows' = [k \in 1..Len(api_raw) |-> norm_api(api_raw[k])]
    /\ pc' = AfterRow("seed", 0, Len(export_rows), Len(api_raw))[1]
    /\ idx' = AfterRow("seed", 0, Len(export_rows), Len(api_raw))[2]
    /\ UNCHANGED <<export_rows, api_raw, master, rows, analysis, pred_secs,
                   status, date_in, week_out>>

\* One iteration of `for r in export_rows`.
SeedRow ==
    /\ pc = "seed"
    /\ master' = DictSet(master, StoredRow("export", idx, export_rows[idx]))
    /\ pc' = AfterRow("seed", idx, Len(export_rows), Len(api_rows))[1]
    /\ idx' = AfterRow("seed", idx, Len(export_rows), Len(api_rows))[2]
    /\ UNCHANGED <<export_rows, api_raw, api_rows, rows, analysis, pred_secs,
                   status, date_in, week_out>>

\* One iteration of `for r in api_rows`.
ApiRow ==
    /\ pc = "api"
    /\ LET r == api_rows[idx]
           j == IF HasKey(master, r.activity_id)
                THEN KeyIndex(master, r.activity_id)
                ELSE IF HasFuzzy(master, r) THEN FirstFuzzy(master, r)
                ELSE 0
       IN  IF j # 0
           THEN /\ master' = [master EXCEPT ![j].row = UpdateHr(@, r)]
                /\ export_rows' = WriteThrough(export_rows, "export", master', j)
                /\ api_rows' = WriteThrough(api_rows, "api", master', j)
           ELSE /\ master' = DictSet(master, StoredRow("api", idx, r))
                /\ UNCHANGED <<export_rows, api_rows>>
    /\ pc' = AfterRow("api", idx, Len(export_rows), Len(api_rows))[1]
    /\ idx' = AfterRow("api", idx, Len(export_rows), Len(api_rows))[2]
    /\ UNCHANGED <<api_raw, rows, analysis, pred_secs, status, date_in,
                   week_out>>

\* return sorted(master.values(), key=lambda x: x["date"])
Return ==
    /\ pc = "return"
    /\ rows' = SortedByDate(Values(master))
    /\ pc' = "merged"
    /\ idx' = 0
    /\ UNCHANGED <<export_rows, api_raw, api_rows, master, analysis,
                   pred_secs, status, date_in, week_out>>

-----------------------------------------------------------------------------
(* predict and build_status                                                *)

\* round(x) of the number n / unit: to the nearest integer, a tie to the
\* even one.
RoundHalfEven(n, unit) ==
    LET q == n \div unit
        r == n % unit
    IN  IF 2 * r < unit THEN q
        ELSE IF 2 * r > unit THEN q + 1
        ELSE IF q % 2 = 0 THEN q ELSE q + 1

\* The unit of the prediction's arithmetic: 1/100000 s.
E5 == 100000

\* base_secs = riegel(HM_PB_SECS, HM_DIST_M) = 4380 * (42195 / 21097.5) ** 1.06
\* = 9132.000064968224 s, in units of 1/100000 s.
base_secs == 913200006

Max(a, b) == IF a >= b THEN a ELSE b

Min(a, b) == IF a <= b THEN a ELSE b

PredictNoClamp(an) ==
    LET ae_pct   == IF Truthy(an.ae_trend_pct) THEN an.ae_trend_pct[1] ELSE 0
        modifier == -ae_pct * 15 * (E5 \div 10)
    IN  RoundHalfEven(base_secs + modifier, E5)

\* predict(rows, analysis)[0]; ae_trend_pct is in tenths of a percent.
predict(an) ==
    LET ae_pct   == IF Truthy(an.ae_trend_pct) THEN an.ae_trend_pct[1] ELSE 0
        modifier == Max(-90 * E5, Min(90 * E5, -ae_pct * 15 * (E5 \div 10)))
    IN  RoundHalfEven(base_secs + modifier, E5)

StatusExclusiveClose(pred) ==
    LET delta == TARGET_SECS - pred
    IN  IF delta > 180 THEN "AHEAD"
        ELSE IF delta >= -60 THEN "ON TRACK"
        ELSE IF delta > -300 THEN "CLOSE"
        ELSE "OFF PACE"

\* The "status" build_status gives the predicted time.
StatusOf(pred) ==
    LET delta == TARGET_SECS - pred
    IN  IF delta > 180 THEN "AHEAD"
        ELSE IF delta >= -60 THEN "ON TRACK"
        ELSE IF delta >= -300 THEN "CLOSE"
        ELSE "OFF PACE"

\* pred_secs, basis = predict(master, analysis)
PredictCall ==
    /\ pc = "predict"
    /\ pred_secs' = predict(analysis)
    /\ pc' = "status"
    /\ UNCHANGED <<export_rows, api_raw, api_rows, master, idx, rows,
                   analysis, status, date_in, week_out>>

\* status = build_status(pred_secs, analysis, master)
BuildStatus ==
    /\ pc = "status"
    /\ status' = [status            |-> StatusOf(pred_secs),
                  predicted_time    |-> <<pred_secs \div 3600,
                                          (pred_secs % 3600) \div 60,
                                          pred_secs % 60>>,
                  predicted_seconds |-> pred_secs,
                  target_seconds    |-> TARGET_SECS,
                  delta_seconds     |-> TARGET_SECS - pred_secs]
    /\ pc' = "audit"
    /\ UNCHANGED <<export_rows, api_raw, api_rows, master, idx, rows,
                   analysis, pred_secs, date_in, week_out>>

-----------------------------------------------------------------------------
(* Exact arithmetic for analyse.  A number is a fraction <<n, d>> in       *)
(* lowest terms with d > 0.  analyse computes in doubles; on the runs the  *)
(* model draws, the speeds (1, 1.5 and 2 m/s) and their sums and squares   *)
(* are doubles exactly, and no rounded value lies near a tie.              *)

Abs(x) == IF x < 0 THEN -x ELSE x

RECURSIVE Gcd(_, _)
Gcd(a, b) == IF b = 0 THEN a ELSE Gcd(b, a % b)

Rat(n, d) ==
    LET g == Gcd(Abs(n), Abs(d))
    IN  IF d < 0 THEN <<(-n) \div g, (-d) \div g>> ELSE <<n \div g, d \div g>>

RatInt(k) == <<k, 1>>

RatAdd(a, b) ==
    LET g == Gcd(a[2], b[2])
    IN  Rat(a[1] * (b[2] \div g) + b[1] * (a[2] \div g), (a[2] \div g) * b[2])

RatNeg(a) == <<-a[1], a[2]>>

RatSub(a, b) == RatAdd(a, RatNeg(b))

RatMul(a, b) ==
    LET x == Rat(a[1], b[2])
        y == Rat(b[1], a[2])
    IN  <<x[1] * y[1], x[2] * y[2]>>

\* a / b, for b not zero.
RatDiv(a, b) == RatMul(a, Rat(b[2], b[1]))

RECURSIVE RatSum(_)
RatSum(s) == IF s = <<>> THEN RatInt(0) ELSE RatAdd(s[1], RatSum(Tail(s)))

\* sum(...) / len(runs)
Mean(s) == RatDiv(RatSum(s), RatInt(Len(s)))

RECURSIVE ShiftDiv(_, _, _)
\* <<floor(r * 10^k / d), the remainder>>, for 0 <= r < d, a digit at a time.
ShiftDiv(r, d, k) ==
    IF k = 0 THEN <<0, r>>
    ELSE LET p == ShiftDiv(r, d, k - 1)
         IN  <<p[1] * 10 + (p[2] * 10) \div d, (p[2] * 10) % d>>

RECURSIVE Pow10(_)
Pow10(k) == IF k = 0 THEN 1 ELSE 10 * Pow10(k - 1)

\* round(a, k), in units of 10^-k: to the nearest, a tie to the even one.
RoundRat(a, k) ==
    LET whole == a[1] \div a[2]
        p     == ShiftDiv(a[1] % a[2], a[2], k)
        q     == whole * Pow10(k) + p[1]
    IN  IF 2 * p[2] < a[2] THEN q
        ELSE IF 2 * p[2] > a[2] THEN q + 1
        ELSE IF q % 2 = 0 THEN q ELSE q + 1

-----------------------------------------------------------------------------
(* analyse                                                                 *)

\* r["avg_hr"] and r["moving_secs"] > 0 and r["distance_km"] >= 5
Qualifies(r) ==
    Truthy(r.avg_hr) /\ r.moving_secs > 0 /\ r.distance_km >= 500

HrRuns(rs) == SelectSeq(rs, Qualifies)

\* The entry analyse appends to by_week[w] for the run r.
Point(r) ==
    LET speed == Rat(r.distance_km * 10, r.moving_secs)
        hr    == Rat(r.avg_hr[1], 10)
    IN  [date    |-> r.date,
         speed   |-> speed,
         hr      |-> hr,
         ae      |-> RatMul(RatDiv(speed, hr), RatInt(1000)),
         dist_km |-> r.distance_km]

\* by_week[w]
WeekRuns(rs, w) ==
    LET InWeek(r) == plan_week(r.date) = Some(w)
        runs      == SelectSeq(HrRuns(rs), InWeek)
    IN  [j \in 1..Len(runs) |-> Point(runs[j])]

Field(s, f) == [j \in 1..Len(s) |-> s[j][f]]

\* 1000 / r["speed"] / 60
PaceMinKm(pt) == RatDiv(RatDiv(RatInt(1000), pt.speed), RatInt(60))

\* wk_ae[w]: ae in 1/10000, avg_hr in tenths, avg_pace_minkm in hundredths.
WeekStats(runs) ==
    [ae             |-> RoundRat(Mean(Field(runs, "ae")), 4),
     avg_hr         |-> RoundRat(Mean(Field(runs, "hr")), 1),
     avg_pace_minkm |-> RoundRat(
                            Mean([j \in 1..Len(runs) |-> PaceMinKm(runs[j])]), 2),
     n              |-> Len(runs)]

PopulatedWeeks(rs) == {w \in 1..18 : WeekRuns(rs, w) # <<>>}

RECURSIVE SortedSeq(_)
\* sorted(wk_ae)
SortedSeq(S) ==
    IF S = {} THEN <<>>
    ELSE LET m == CHOOSE x \in S : \A y \in S : x <= y
         IN  <<m>> \o SortedSeq(S \ {m})

\* sum(wk_ae[w]["ae"] for w in ws) / len(ws)
HalfAe(wk_ae, ws) == Mean([j \in 1..Len(ws) |-> RatInt(wk_ae[ws[j]].ae)])

\* The points of the regression: every run of every week.
RECURSIVE AllPoints(_, _)
AllPoints(rs, wks) ==
    IF wks = <<>> THEN <<>>
    ELSE WeekRuns(rs, wks[1]) \o AllPoints(rs, Tail(wks))

\* n * sx2 - sx * sx
RegressionDenom(pts) ==
    LET n   == RatInt(Len(pts))
        sx  == RatSum(Field(pts, "speed"))
        sx2 == RatSum([j \in 1..Len(pts) |-> RatMul(pts[j].speed, pts[j].speed)])
    IN  RatSub(RatMul(n, sx2), RatMul(sx, sx))

\* round(a * mp_speed + b, 1), in tenths of a beat, for denom not zero.
HrAtMp(pts) ==
    LET n        == RatInt(Len(pts))
        sx       == RatSum(Field(pts, "speed"))
        sy       == RatSum(Field(pts, "hr"))
        sxy      == RatSum([j \in 1..Len(pts) |-> RatMul(pts[j].speed, pts[j].hr)])
        a        == RatDiv(RatSub(RatMul(n, sxy), RatMul(sx, sy)),
                           RegressionDenom(pts))
        b        == RatDiv(RatSub(sy, RatMul(a, sx)), n)
        mp_speed == Rat(TARGET_DIST_M, TARGET_SECS)
    IN  RoundRat(RatAdd(RatMul(a, mp_speed), b), 1)

SetMax(S) == CHOOSE x \in S : \A y \in S : y <= x

\* 5 km in 2 000 000 000 s with a heart rate of 70.7: an efficiency of
\* 0.0000354, which rounds to 0.0.
VerySlowRun == <<<<2025, 12, 29>>, 500, 2000000000, Some(707)>>

\* analyse(rows) raises ZeroDivisionError: the first half's mean efficiency,
\* or the previous week's efficiency, is 0.0.
AnalyseRaises(rs) ==
    LET wkset == PopulatedWeeks(rs)
        wk_ae == [w \in wkset |-> WeekStats(WeekRuns(rs, w))]
        wks   == SortedSeq(wkset)
        mid   == Len(wks) \div 2
    IN  /\ Len(wks) >= 2
        /\ \/ HalfAe(wk_ae, SubSeq(wks, 1, mid))[1] = 0
           \/ wk_ae[wks[Len(wks) - 1]].ae = 0

\* round(red_zone_hr - hr_at_mp, 1) if hr_at_mp else None
HrBuffer(red_zone_hr, hr_at_mp) ==
    IF Truthy(hr_at_mp) THEN Some(red_zone_hr - hr_at_mp[1]) ELSE None

\* What analyse(rows) returns, when it does not raise.  Percentages are in
\* tenths of a percent, heart rates in tenths of a beat.
analyse(rs) ==
    LET wkset      == PopulatedWeeks(rs)
        wk_ae      == [w \in wkset |-> WeekStats(WeekRuns(rs, w))]
        wks        == SortedSeq(wkset)
        mid        == Len(wks) \div 2
        first_ae   == HalfAe(wk_ae, SubSeq(wks, 1, mid))
        second_ae  == HalfAe(wk_ae, SubSeq(wks, mid + 1, Len(wks)))
        ae_pct     == IF Len(wks) >= 2
                      THEN Some(RoundRat(RatMul(RatDiv(RatSub(second_ae, first_ae),
                                                       first_ae),
                                                RatInt(100)), 1))
                      ELSE None
        ae_trend   == IF ae_pct = None THEN "insufficient data"
                      ELSE IF ae_pct[1] > 10 THEN "improving"
                      ELSE IF ae_pct[1] < -10 THEN "declining"
                      ELSE "stable"
        all_pts    == AllPoints(rs, wks)
        hr_at_mp   == IF Len(all_pts) >= 3 /\ RegressionDenom(all_pts)[1] # 0
                      THEN Some(HrAtMp(all_pts)) ELSE None
        hr_runs    == HrRuns(rs)
        max_avg_hr == IF hr_runs = <<>> THEN 1750
                      ELSE SetMax({hr_runs[j].avg_hr[1] : j \in 1..Len(hr_runs)})
        \* round(max_avg_hr * 1.12 * 0.90, 1)
        red_zone   == RoundRat(Rat(max_avg_hr * 1008, 10000), 1)
        current_wk == IF wks # <<>> THEN Some(wks[Len(wks)]) ELSE None
        prev_wk    == IF Len(wks) >= 2 THEN Some(wks[Len(wks) - 1]) ELSE None
        ae_delta   == IF current_wk # None /\ prev_wk # None
                      THEN Some(RoundRat(
                               RatMul(Rat(wk_ae[current_wk[1]].ae
                                             - wk_ae[prev_wk[1]].ae,
                                          wk_ae[prev_wk[1]].ae),
                                      RatInt(100)), 1))
                      ELSE None
    IN  [ran          |-> TRUE,
         by_week      |-> wk_ae,
         ae_trend     |-> ae_trend,
         ae_trend_pct |-> ae_pct,
         ae_delta_wk  |-> ae_delta,
         hr_at_mp     |-> hr_at_mp,
         red_zone_hr  |-> red_zone,
         hr_buffer    |-> HrBuffer(red_zone, hr_at_mp),
         current_week |-> current_wk]

\* analysis = analyse(master)
Analyse ==
    /\ pc = "merged"
    /\ IF AnalyseRaises(rows)
       THEN /\ pc' = "ZeroDivisionError"
            /\ UNCHANGED analysis
       ELSE /\ pc' = "predict"
            /\ analysis' = analyse(rows)
    /\ UNCHANGED <<export_rows, api_raw, api_rows, master, idx, rows,
                   pred_secs, status, date_in, week_out>>

-----------------------------------------------------------------------------
(* week9_audit                                                             *)

\* fmt_pace(spd) raises ZeroDivisionError for a run of week 9 that has a
\* moving time and no distance: spd = 0 and sec_per_km = 1000 / spd.
AuditRaises(rs) ==
    \E j \in 1..Len(rs) :
        /\ plan_week(rs[j].date) = Some(9)
        /\ rs[j].moving_secs # 0
        /\ rs[j].distance_km = 0

\* week9_audit(master, analysis)
Week9Audit ==
    /\ pc = "audit"
    /\ pc' = IF AuditRaises(rows) THEN "ZeroDivisionError" ELSE "done"
    /\ UNCHANGED <<export_rows, api_raw, api_rows, master, idx, rows,
                   analysis, pred_secs, status, date_in, week_out>>

-----------------------------------------------------------------------------
(* The inputs merge is tried on.                                           *)

D0 == <<2025, 12, 22>>

D1 == <<2025, 12, 29>>

ExportPlaces == {<<D0, 1000>>, <<D0, 1001>>, <<D0, 1005>>, <<D1, 1000>>}

ExportDomain ==
    {[activity_id |-> i, date |-> p[1], name |-> "Morning Run",
      distance_km |-> p[2], moving_secs |-> 2400, avg_hr |-> h] :
        i \in {"A", "C"}, p \in ExportPlaces, h \in {None, Some(1400)}}

ApiPlaces == {<<D0, 10000>>, <<D0, 10005>>, <<D0, 10050>>, <<D1, 10000>>}

ApiDomain ==
    {[id |-> i, start_date_local |-> p[1] \o <<7, 30, 0>>, name |-> "Run",
      distance |-> p[2], moving_time |-> 2401, average_heartrate |-> h] :
        i \in {"A", "B"}, p \in ApiPlaces,
        h \in {None, Some(1500), Some(1600)}}

Seqs(S, n) == [1..n -> S]

InitMerge ==
    /\ \E ne \in 0..MaxRows : \E na \in 0..(MaxRows - ne) :
           /\ export_rows \in Seqs(ExportDomain, ne)
           /\ api_raw \in Seqs(ApiDomain, na)
    /\ api_rows = <<>>
    /\ master = <<>>
    /\ pc = "norm"
    /\ idx = 0
    /\ rows = <<>>
    /\ analysis = NoAnalysis
    /\ pred_secs = 0
    /\ status = ""
    /\ date_in = PLAN_START
    /\ week_out = None

NextMerge == NormApi \/ SeedRow \/ ApiRow \/ Return

SpecMerge == InitMerge /\ [][NextMerge]_vars

-----------------------------------------------------------------------------
(* plan_week on its own: every date of 2025 and 2026.                      *)

DateDomain ==
    {d \in (2025..2026) \X (1..12) \X (1..31) : d[3] <= DaysInMonth(d[1], d[2])}

PlanWeekCall ==
    /\ pc = "week"
    /\ week_out' = plan_week(date_in)
    /\ pc' = "week_done"
    /\ UNCHANGED <<export_rows, api_raw, api_rows, master, idx, rows,
                   analysis, pred_secs, status, date_in>>

InitWeek ==
    /\ date_in \in DateDomain
    /\ week_out = None
    /\ pc = "week"
    /\ export_rows = <<>>
    /\ api_raw = <<>>
    /\ api_rows = <<>>
    /\ master = <<>>
    /\ idx = 0
    /\ rows = <<>>
    /\ analysis = NoAnalysis
    /\ pred_secs = 0
    /\ status = ""

NextWeek == PlanWeekCall

SpecWeek == InitWeek /\ [][NextWeek]_vars

-----------------------------------------------------------------------------
(* predict on its own: every trend percentage of the bound, and None.      *)

PctDomain == {None} \cup {Some(t) : t \in (-MaxPctTenths)..MaxPctTenths}

InitPredict ==
    /\ \E t \in PctDomain : analysis = [ran |-> TRUE, ae_trend_pct |-> t]
    /\ pc = "predict"
    /\ pred_secs = 0
    /\ status = ""
    /\ export_rows = <<>>
    /\ api_raw = <<>>
    /\ api_rows = <<>>
    /\ master = <<>>
    /\ idx = 0
    /\ rows = <<>>
    /\ date_in = PLAN_START
    /\ week_out = None

NextPredict == PredictCall

SpecPredict == InitPredict /\ [][NextPredict]_vars

-----------------------------------------------------------------------------
(* build_status on its own: every predicted time within MaxDelta seconds   *)
(* of the target.                                                          *)

InitStatus ==
    /\ pred_secs \in (TARGET_SECS - MaxDelta)..(TARGET_SECS + MaxDelta)
    /\ pc = "status"
    /\ analysis = NoAnalysis
    /\ status = ""
    /\ export_rows = <<>>
    /\ api_raw = <<>>
    /\ api_rows = <<>>
    /\ master = <<>>
    /\ idx = 0
    /\ rows = <<>>
    /\ date_in = PLAN_START
    /\ week_out = None

NextStatus == BuildStatus

SpecStatus == InitStatus /\ [][NextStatus]_vars

-----------------------------------------------------------------------------
(* The whole pipeline of main: merge, analyse, predict, build_status and   *)
(* week9_audit, on runs that qualify for the analysis and runs that do     *)
(* not.                                                                    *)

W1 == <<2025, 12, 22>>

W2 == <<2025, 12, 29>>

W9 == <<2026, 2, 16>>

\* <<date, distance_km (hundredths), moving_secs, avg_hr (tenths)>>
PipelineRuns ==
    {<<W1, 1000, 10000, Some(707)>>,     \* 1 m/s
     <<W1, 1500, 10000, Some(607)>>,     \* 1.5 m/s
     <<W2, 1000, 5000, Some(507)>>,      \* 2 m/s
     <<W2, 1000, 10000, Some(707)>>,     \* 1 m/s
     <<W9, 1000, 10000, Some(607)>>,     \* 1 m/s
     <<W9, 0, 600, None>>,               \* no distance recorded
     <<W1, 1000, 0, Some(707)>>,         \* no moving time recorded
     <<W2, 400, 2000, Some(707)>>,       \* shorter than 5 km
     <<W1, 1000, 5000, None>>,           \* no heart rate
     VerySlowRun}

PipelineIds == <<"A", "B", "C", "D">>

PipelineRow(k, run) ==
    [activity_id |-> PipelineIds[k], date |-> run[1], name |-> "Morning Run",
     distance_km |-> run[2], moving_secs |-> run[3], avg_hr |-> run[4]]

\* An API activity with an id of its own: the week-9 run of 10 km.
PipelineActivity ==
    [id |-> "Z", start_date_local |-> W9 \o <<7, 30, 0>>, name |-> "Run",
     distance |-> 10000, moving_time |-> 10000,
     average_heartrate |-> Some(607)]

\* The very slow run is tried in inputs of at most two rows: the exact
\* arithmetic of a regression over three points, one of them at 1/400000
\* m/s, is beyond TLC's 32-bit integers.
InitPipeline ==
    /\ \E n \in 0..MaxPipelineRows : \E runs \in Seqs(PipelineRuns, n) :
           /\ (\E k \in 1..n : runs[k] = VerySlowRun) => n <= 2
           /\ export_rows = [k \in 1..n |-> PipelineRow(k, runs[k])]
    /\ api_raw \in {<<>>, <<PipelineActivity>>}
    /\ (\E k \in DOMAIN export_rows : export_rows[k].moving_secs > 1000000)
           => api_raw = <<>>
    /\ api_rows = <<>>
    /\ master = <<>>
    /\ pc = "norm"
    /\ idx = 0
    /\ rows = <<>>
    /\ analysis = NoAnalysis
    /\ pred_secs = 0
    /\ status = ""
    /\ date_in = PLAN_START
    /\ week_out = None

NextPipeline ==
    \/ NormApi
    \/ SeedRow
    \/ ApiRow
    \/ Return
    \/ Analyse
    \/ PredictCall
    \/ BuildStatus
    \/ Week9Audit

SpecPipeline == InitPipeline /\ [][NextPipeline]_vars

-----------------------------------------------------------------------------
(* The claims about merge.  The claims speak of the fuzzy key in their own *)
(* words: ClaimKey is the claim's "(date, distance_km rounded to 1 decimal *)
(* place)", whatever key merge computes.                                   *)

ClaimKey(r) == <<r.date, Round1(r.distance_km)>>

Keys(m) == {m[j].key : j \in 1..Len(m)}

IdsOf(s) == {s[j].activity_id : j \in 1..Len(s)}

\* The API record a shares the id or the fuzzy key of the export record e.
Shares(e, a) ==
    \/ a.activity_id = e.activity_id
    \/ ClaimKey(a) = ClaimKey(e)

\* C2 as stated: at the end of merge, for every export record E and every
\* API record A with a non-empty avg_hr that shares E's activity_id or E's
\* fuzzy key, the merged record with E's activity_id has A's avg_hr.
C2_HrOverwriteAnyMatch ==
    pc = "merged" =>
        \A e \in DOMAIN export_rows : \A a \in DOMAIN api_rows :
            (Truthy(api_rows[a].avg_hr) /\ Shares(export_rows[e], api_rows[a]))
            => \A k \in DOMAIN rows :
                   rows[k].activity_id = export_rows[e].activity_id
                   => rows[k].avg_hr = api_rows[a].avg_hr

\* The API record at a is one that merge applies to the export record at e,
\* and the last one with a heart rate that can reach it.
C2_Applies(e, a) ==
    LET E == export_rows[e]
        A == api_rows[a]
    IN  /\ Truthy(A.avg_hr)
        /\ Shares(E, A)
        \* E is the row stored under its id: no later export row has the id
        /\ \A e2 \in DOMAIN export_rows :
               e2 > e => export_rows[e2].activity_id # E.activity_id
        \* A is the last API record with a heart rate that shares E's id or key
        /\ \A a2 \in DOMAIN api_rows :
               (a2 > a /\ Truthy(api_rows[a2].avg_hr))
               => ~Shares(E, api_rows[a2])
        \* a match by the fuzzy key alone is tried only when A's id is no key
        \* of master, and goes to the first record holding the key
        /\ \/ A.activity_id = E.activity_id
           \/ /\ A.activity_id \notin IdsOf(export_rows)
              /\ \A a2 \in DOMAIN api_rows :
                     a2 < a => api_rows[a2].activity_id # A.activity_id
              /\ \A e2 \in DOMAIN export_rows :
                     export_rows[e2].activity_id # E.activity_id
                     => ClaimKey(export_rows[e2]) # ClaimKey(E)

\* C2, amended: at the end of merge, the merged record with E's activity_id
\* has A's avg_hr, whatever E's own avg_hr, for every export record E and API
\* record A with a non-empty avg_hr that shares E's activity_id or fuzzy key,
\* provided E is the last export row with its id, A is the last such API
\* record, and, when only the fuzzy key is shared, A's id is the id of no
\* export row and of no earlier API row and no export row with another id
\* has E's fuzzy key.
C2_HrOverwriteLastApplied ==
    pc = "merged" =>
        \A e \in DOMAIN export_rows : \A a \in DOMAIN api_rows :
            C2_Applies(e, a)
            => /\ \E k \in DOMAIN rows :
                      rows[k].activity_id = export_rows[e].activity_id
               /\ \A k \in DOMAIN rows :
                      rows[k].activity_id = export_rows[e].activity_id
                      => rows[k].avg_hr = api_rows[a].avg_hr

\* An export record with a heart rate of its own was overwritten through a
\* match on the fuzzy key alone.
C2_Witness ==
    /\ pc = "merged"
    /\ \E e \in DOMAIN export_rows : \E a \in DOMAIN api_rows :
           /\ C2_Applies(e, a)
           /\ api_rows[a].activity_id # export_rows[e].activity_id
           /\ export_rows[e].avg_hr = Some(1400)
           /\ \E k \in DOMAIN rows :
                  /\ rows[k].activity_id = export_rows[e].activity_id
                  /\ rows[k].avg_hr = Some(1500)

\* C3: after every step of merge's loops master holds at most one record
\* per activity_id (each stored under its own id), so the returned records
\* have pairwise different activity_ids, and there are at most
\* len(export_rows) + len(api_rows) of them.
C3_MergeUnique ==
    /\ \A j \in DOMAIN master : master[j].key = master[j].row.activity_id
    /\ \A j, k \in DOMAIN master :
           j # k => master[j].row.activity_id # master[k].row.activity_id
    /\ pc = "merged" =>
           /\ \A j, k \in DOMAIN rows :
                  j # k => rows[j].activity_id # rows[k].activity_id
           /\ Len(rows) <= Len(export_rows) + Len(api_rows)

\* Two export rows with one id and an API row were merged into fewer records
\* than there were rows.
C3_Witness ==
    /\ pc = "merged"
    /\ Len(export_rows) = 2
    /\ export_rows[1].activity_id = export_rows[2].activity_id
    /\ Len(api_rows) = 1
    /\ Len(rows) = 2

\* C4 as stated: merge returns at least as many records as there are
\* distinct activity_ids among the export rows, and at least as many as
\* there are distinct activity_ids among the API rows.
C4_LowerBoundBoth ==
    pc = "merged" =>
        /\ Len(rows) >= Cardinality(IdsOf(export_rows))
        /\ Len(rows) >= Cardinality(IdsOf(api_rows))

\* No API record shares its fuzzy key with an input record of another id.
C4_NoFuzzyClash ==
    \A a \in DOMAIN api_rows :
        /\ \A e \in DOMAIN export_rows :
               export_rows[e].activity_id # api_rows[a].activity_id
               => ClaimKey(export_rows[e]) # ClaimKey(api_rows[a])
        /\ \A a2 \in DOMAIN api_rows :
               api_rows[a2].activity_id # api_rows[a].activity_id
               => ClaimKey(api_rows[a2]) # ClaimKey(api_rows[a])

\* C4, amended: merge returns at least as many records as there are distinct
\* activity_ids among the export rows; it returns at least as many as there
\* are distinct activity_ids among the API rows when no API record shares
\* its fuzzy key with an input record of another activity_id.
C4_LowerBoundExport ==
    pc = "merged" =>
        /\ Len(rows) >= Cardinality(IdsOf(export_rows))
        /\ C4_NoFuzzyClash => Len(rows) >= Cardinality(IdsOf(api_rows))

\* Two export ids and a new API id, none sharing a fuzzy key: three records.
C4_Witness ==
    /\ pc = "merged"
    /\ Cardinality(IdsOf(export_rows)) = 2
    /\ Cardinality(IdsOf(api_rows) \ IdsOf(export_rows)) = 1
    /\ C4_NoFuzzyClash
    /\ Len(rows) = 3

\* The end-to-end example: two export rows for one run and one API activity.
E2EExportRow ==
    [activity_id |-> "A", date |-> <<2025, 12, 22>>, name |-> "Morning Run",
     distance_km |-> 1000, moving_secs |-> 2400, avg_hr |-> None]

E2EActivity ==
    [id |-> "B", start_date_local |-> <<2025, 12, 22, 7, 30, 0>>,
     name |-> "Run", distance |-> 10005, moving_time |-> 2401,
     average_heartrate |-> Some(1500)]

C5_EndToEnd ==
    (/\ pc = "merged"
     /\ export_rows = <<E2EExportRow, E2EExportRow>>
     /\ api_raw = <<E2EActivity>>)
    => /\ Len(rows) = 1
       /\ rows[1].avg_hr = Some(1500)
       /\ plan_week(rows[1].date) = Some(1)

\* The step of merge on the API record r left master as it was but for the
\* avg_hr of the one record holding r's fuzzy key.
C5_UpdatedInPlace(r) ==
    /\ Len(master') = Len(master)
    /\ r.activity_id \notin Keys(master')
    /\ \E j \in DOMAIN master :
           /\ ClaimKey(master[j].row) = ClaimKey(r)
           /\ master' = [master EXCEPT ![j].row.avg_hr =
                            IF Truthy(r.avg_hr) THEN r.avg_hr ELSE @]

\* C5 as stated: when the API record's id is no key of master and exactly
\* one export record has its fuzzy key, the step adds no entry and updates
\* the matched record in place; and the end-to-end example gives 1 record
\* with avg_hr 150 in plan week 1.
C5_FuzzyFallbackExport ==
    /\ [][(/\ pc = "api"
           /\ api_rows[idx].activity_id \notin Keys(master)
           /\ Cardinality({e \in DOMAIN export_rows :
                  ClaimKey(export_rows[e]) = ClaimKey(api_rows[idx])}) = 1)
          => C5_UpdatedInPlace(api_rows[idx])]_vars
    /\ []C5_EndToEnd

\* C5, amended: when the API record's id is no key of master and exactly one
\* record stored in master has its fuzzy key (an export row replaced by a
\* later export row with the same id is not stored), the step adds no entry
\* and updates that record in place; and the end-to-end example gives 1
\* record with avg_hr 150 in plan week 1.
C5_FuzzyFallbackStored ==
    /\ [][(/\ pc = "api"
           /\ api_rows[idx].activity_id \notin Keys(master)
           /\ Cardinality({j \in DOMAIN master :
                  ClaimKey(master[j].row) = ClaimKey(api_rows[idx])}) = 1)
          => C5_UpdatedInPlace(api_rows[idx])]_vars
    /\ []C5_EndToEnd

\* The end-to-end example has run to its end.
C5_Witness ==
    /\ pc = "merged"
    /\ export_rows = <<E2EExportRow, E2EExportRow>>
    /\ api_raw = <<E2EActivity>>
    /\ Len(rows) = 1
    /\ rows[1].activity_id = "A"
    /\ rows[1].avg_hr = Some(1500)

\* The API record r matches a record of master, by id or by fuzzy key.
C10_Matches(r) ==
    \/ r.activity_id \in Keys(master)
    \/ \E j \in DOMAIN master : ClaimKey(master[j].row) = ClaimKey(r)

\* C10: a step of merge on an API record that matches a stored record
\* changes nothing of master but the avg_hr of one stored record, and that
\* only to the API record's non-empty avg_hr; no step of merge changes the
\* caller's export_rows or api_rows.
C10_MatchFrame ==
    [][/\ (pc = "api" /\ C10_Matches(api_rows[idx])) =>
              /\ Len(master') = Len(master)
              /\ \A j \in DOMAIN master :
                     /\ master'[j].key = master[j].key
                     /\ master'[j].row.activity_id = master[j].row.activity_id
                     /\ master'[j].row.date = master[j].row.date
                     /\ master'[j].row.name = master[j].row.name
                     /\ master'[j].row.distance_km = master[j].row.distance_km
                     /\ master'[j].row.moving_secs = master[j].row.moving_secs
                     /\ master'[j].row.avg_hr # master[j].row.avg_hr
                        => /\ Truthy(api_rows[idx].avg_hr)
                           /\ master'[j].row.avg_hr = api_rows[idx].avg_hr
              /\ Cardinality({j \in DOMAIN master :
                                  master'[j] # master[j]}) <= 1
       /\ pc \in {"seed", "api", "return"} =>
              /\ export_rows' = export_rows
              /\ api_rows' = api_rows]_vars

\* An export record with a heart rate of its own came out of merge with the
\* API record's heart rate and its own name, distance and moving time.
C10_Witness ==
    /\ pc = "merged"
    /\ \E e \in DOMAIN export_rows : \E k \in DOMAIN rows :
           /\ export_rows[e].avg_hr = Some(1400)
           /\ rows[k] = [export_rows[e] EXCEPT !.avg_hr = Some(1600)]

-----------------------------------------------------------------------------
(* The claims about build_status and predict.                              *)

\* The boundaries the claim and the code agree on.
C1_SharedBoundaries ==
    /\ status.delta_seconds = TARGET_SECS - pred_secs
    /\ status.status \in {"AHEAD", "ON TRACK", "CLOSE", "OFF PACE"}
    /\ status.status = "AHEAD" <=> status.delta_seconds > 180
    /\ status.delta_seconds = 180 => status.status = "ON TRACK"
    /\ status.delta_seconds = -60 => status.status = "ON TRACK"
    /\ status.delta_seconds = -61 => status.status = "CLOSE"

\* C1 as stated: a delta of 180 is ON TRACK, of -60 is ON TRACK, of -300 is
\* OFF PACE (CLOSE requires strictly > -300), and every delta has exactly
\* one of the four statuses.
C1_BoundaryOffPaceAt300 ==
    pc = "audit" =>
        /\ C1_SharedBoundaries
        /\ status.delta_seconds = -300 => status.status = "OFF PACE"
        /\ status.status = "CLOSE" =>
               (status.delta_seconds > -300 /\ status.delta_seconds < -60)

\* C1, amended: a delta of 180 is ON TRACK, of -60 is ON TRACK, of -300 is
\* CLOSE (CLOSE is -300 <= delta < -60, OFF PACE requires strictly < -300),
\* and every delta has exactly one of the four statuses.
C1_BoundaryCloseAt300 ==
    pc = "audit" =>
        /\ C1_SharedBoundaries
        /\ status.delta_seconds = -300 => status.status = "CLOSE"
        /\ status.status = "CLOSE" <=>
               (status.delta_seconds >= -300 /\ status.delta_seconds < -60)
        /\ status.status = "OFF PACE" <=> status.delta_seconds < -300
        /\ status.status = "ON TRACK" <=>
               (status.delta_seconds >= -60 /\ status.delta_seconds <= 180)

\* build_status was called with a prediction 300 s over the target.
C1_Witness ==
    /\ pc = "audit"
    /\ status.delta_seconds = -300
    /\ status.status = "CLOSE"

\* The claim's modifier, in seconds times 10: -15 s per +1 %, within
\* [-90, +90]; t is the trend in tenths of a percent, or None.
C8_ModifierTenths(t) ==
    IF t = None THEN 0
    ELSE IF -15 * t[1] > 900 THEN 900
    ELSE IF -15 * t[1] < -900 THEN -900
    ELSE -15 * t[1]

\* What the claim and the code agree on: the result is
\* round(baseline + modifier), and a larger trend percentage never gives a
\* larger predicted time.
C8_RoundedSum ==
    /\ pred_secs = RoundHalfEven(
           base_secs + C8_ModifierTenths(analysis.ae_trend_pct) * (E5 \div 10),
           E5)
    /\ analysis.ae_trend_pct = None => pred_secs = RoundHalfEven(base_secs, E5)
    /\ \A q \in PctDomain :
           (/\ q # None
            /\ analysis.ae_trend_pct # None
            /\ q[1] > analysis.ae_trend_pct[1])
           => predict([ran |-> TRUE, ae_trend_pct |-> q]) <= pred_secs

-----------------------------------------------------------------------------
(* The claims about the pipeline and analyse.                              *)

\* C6: no list of records makes the pipeline abort: merge, analyse, predict,
\* build_status and week9_audit never raise (no division by zero).
C6_NeverAborts == pc # "ZeroDivisionError"

\* The rows analyse pools: with a heart rate, a moving time, 5 km or more,
\* and in a plan week.
C9_Pooled ==
    {j \in DOMAIN rows :
        /\ rows[j].avg_hr # None
        /\ rows[j].moving_secs > 0
        /\ rows[j].distance_km >= 500
        /\ plan_week(rows[j].date) # None}

C9_SpeedsEqual ==
    \A j, k \in C9_Pooled :
        Rat(rows[j].distance_km, rows[j].moving_secs)
            = Rat(rows[k].distance_km, rows[k].moving_secs)

\* The parts of C9 on the trend and on the regression.
C9_InsufficientData ==
    analysis.ran =>
        /\ Cardinality({plan_week(rows[j].date) : j \in C9_Pooled}) < 2
           => /\ analysis.ae_trend = "insufficient data"
              /\ analysis.ae_trend_pct = None
              /\ analysis.ae_delta_wk = None
        /\ (Cardinality(C9_Pooled) < 3 \/ C9_SpeedsEqual)
           => analysis.hr_at_mp = None

\* C9: with fewer than 2 populated plan weeks ae_trend is "insufficient
\* data" and ae_trend_pct and ae_delta_wk are None; with fewer than 3 pooled
\* runs or all speeds equal hr_at_mp is None; and hr_buffer is None exactly
\* when hr_at_mp is None.
C9_UndefinedResults ==
    /\ C9_InsufficientData
    /\ analysis.ran => (analysis.hr_buffer = None <=> analysis.hr_at_mp = None)

-----------------------------------------------------------------------------
(* The claim about plan_week.                                              *)

\* The number of days from the date a to the date b, not before a: the
\* calendar dates from a on that are before b.
DaysFrom(a, b) ==
    Cardinality({d \in DateDomain :
                    (d = a \/ DateLess(a, d)) /\ DateLess(d, b)})

\* C7: plan_week maps the plan start to week 1, a date d >= 0 days after it
\* to floor(d / 7) + 1 when that is at most 18 (start + 7 days to week 2,
\* start + 125 days to week 18), and every date before the start or with a
\* computed week of 19 or more to None.
C7_WeekIndex ==
    pc = "week_done" =>
        /\ DateLess(date_in, PLAN_START) => week_out = None
        /\ ~DateLess(date_in, PLAN_START) =>
               LET d == DaysFrom(PLAN_START, date_in)
                   w == d \div 7 + 1
               IN  /\ week_out = IF w <= 18 THEN Some(w) ELSE None
                   /\ d = 0 => week_out = Some(1)
                   /\ d = 7 => week_out = Some(2)
                   /\ d = 125 => week_out = Some(18)
                   /\ d = 126 => week_out = None

\* plan_week was called on the last day of week 18.
C7_Witness ==
    /\ pc = "week_done"
    /\ date_in = <<2026, 4, 26>>
    /\ DaysFrom(PLAN_START, date_in) = 125
    /\ week_out = Some(18)

=============================================================================
